---- MODULE Spec2Model ----
(***************************************************************************)
(* The onboarding wizard of the dashboard                                  *)
(* (src/dashboard/src/app/onboarding/page.tsx) and the stand-alone league  *)
(* connect page (ConnectPage, src/dashboard/src/app/privacy/page.tsx       *)
(* lines 146-504), as state machines driven by UI events, timers and       *)
(* network responses.                                                      *)
(*                                                                         *)
(* React component state is modelled per component: a component that is    *)
(* not mounted holds its useState() initial values, which is what it       *)
(* starts from when it is mounted again.  A setTimeout callback keeps the  *)
(* values its closure captured when the handler ran.                       *)
(***************************************************************************)
EXTENDS Integers, Sequences, FiniteSets, TLC

(***************************************************************************)
(* Bounds of the model.                                                    *)
(***************************************************************************)
\* how many distinct non-empty league ids the user may type
NumLeagueIds == 2
\* how many distinct non-empty usernames the user may type
NumUsernames == 1
\* how many edits the user makes to the preferences form before submitting
MaxPrefEdits == 2
\* how many recap times / GroupMe group ids other than the default exist
NumPrefTexts == 1
\* how many timers of one kind may be pending (never reached while the
\* in-flight flag does its work)
MaxTimers == 2
\* how many distinct non-empty response bodies the server may send
NumBodies == 2

LeagueIdPool == <<"123", "abc", "987654321", "L4">>
UsernamePool == <<"kevin", "sam", "u3">>
RecapTimePool == <<"18:30", "07:15", "23:59">>
GroupIdPool == <<"g-1", "g-2", "g-3">>
BodyPool == <<"league not found", "Network error occurred", "rate limited", "b4">>

TypedLeagueIds == {""} \cup {LeagueIdPool[i] : i \in 1..NumLeagueIds}
TypedUsernames == {""} \cup {UsernamePool[i] : i \in 1..NumUsernames}
TypedRecapTimes == {"09:00"} \cup {RecapTimePool[i] : i \in 1..NumPrefTexts}
TypedGroupIds == {""} \cup {GroupIdPool[i] : i \in 1..NumPrefTexts}
ResponseBodies == {""} \cup {BodyPool[i] : i \in 1..NumBodies}

(***************************************************************************)
(* JavaScript values.                                                      *)
(***************************************************************************)
\* the value null (onboardingData's fields before their step has run)
null == [isNull |-> TRUE]

\* the value undefined, as the result of reading a property
undefined == <<>>

\* obj.key / obj?.key: <<v>> when the property exists, undefined otherwise
Get(obj, key) == IF obj # null /\ key \in DOMAIN obj THEN <<obj[key]>> ELSE undefined

\* truthiness of an object-or-null
Truthy(v) == v # null

\* s.includes(t) on strings
Includes(s, t) ==
  \E i \in 1..(Len(s) - Len(t) + 1) : SubSeq(s, i, i + Len(t) - 1) = t

(***************************************************************************)
(* Program constants.                                                      *)
(***************************************************************************)
CONNECT == 1
PREFERENCES == 2
VERIFY == 3
COMPLETE == 4

Tabs == {"yahoo", "sleeper", "espn"}

RecapDays == {"monday", "tuesday", "wednesday", "thursday", "friday"}

\* ids of the mockTeams of TeamVerification
mockTeams == {"1", "2", "3", "4", "5", "6"}

\* useState() initial values of LeagueConnection
LeagueConnectionInit ==
  [activeTab |-> "yahoo",
   sleeperData |-> [league_id |-> "", username |-> ""],
   loading |-> FALSE,
   message |-> ""]

\* useState() initial value of PreferencesSelection
\* faulty variant: injury alerts switched on from the start
PreferencesInit_injuryAlertsOn ==
  [emailNotifications |-> TRUE,
   weeklyRecap |-> TRUE,
   recapDay |-> "tuesday",
   recapTime |-> "09:00",
   powerRankings |-> TRUE,
   waiverReport |-> TRUE,
   injuryAlerts |-> TRUE,
   tradeAlerts |-> TRUE,
   groupmeIntegration |-> FALSE,
   groupmeGroupId |-> ""]

PreferencesInit ==
  [emailNotifications |-> TRUE,
   weeklyRecap |-> TRUE,
   recapDay |-> "tuesday",
   recapTime |-> "09:00",
   powerRankings |-> TRUE,
   waiverReport |-> TRUE,
   injuryAlerts |-> FALSE,
   tradeAlerts |-> TRUE,
   groupmeIntegration |-> FALSE,
   groupmeGroupId |-> ""]

\* useState() initial values of TeamVerification
TeamVerificationInit == [selectedTeam |-> "", loading |-> FALSE]

\* useState() initial value of onboardingData
OnboardingDataInit == [league |-> null, preferences |-> null, team |-> null]

VARIABLES
  currentStep,      \* OnboardingContent: currentStep
  onboardingData,   \* OnboardingContent: onboardingData
  lc,               \* LeagueConnection: activeTab, sleeperData, loading, message
  ps,               \* PreferencesSelection: preferences
  prefEdits,        \* number of edits made to the mounted preferences form
  tv,               \* TeamVerification: selectedTeam, loading
  connectTimers,    \* pending setTimeout callbacks of LeagueConnection (FIFO)
  verifyTimers,     \* pending setTimeout callbacks of TeamVerification (FIFO)
  emissions,        \* how often LeagueConnection's onComplete has been called
  route,            \* the path the browser shows, which decides the page
  cp,               \* ConnectPage: activeTab, sleeperData, loading, message, step
  cpFetch           \* ConnectPage: the handler invocations awaiting the network

wizardVars ==
  <<currentStep, onboardingData, lc, ps, prefEdits, tv, connectTimers,
    verifyTimers, emissions, route>>

connectVars == <<cp, cpFetch>>

vars ==
  <<currentStep, onboardingData, lc, ps, prefEdits, tv, connectTimers,
    verifyTimers, emissions, route, cp, cpFetch>>

(***************************************************************************)
(* OnboardingContent: which panel is rendered for a state.                 *)
(***************************************************************************)
LeagueConnectionMounted(step) == step = 1

PreferencesSelectionMounted(step) == step = 2

\* faulty variant: the panel shown for every step before the last, unguarded
TeamVerificationMounted_anyStep(step, data) == step < 4

\* faulty variant: the render condition without the league guard
TeamVerificationMounted_unguarded(step, data) == step = 3

TeamVerificationMounted(step, data) == step = 3 /\ Truthy(data.league)

SetupCompleteMounted(step) == step = 4

RenderedPanels ==
  {p \in {"LeagueConnection", "PreferencesSelection", "TeamVerification",
          "SetupComplete"} :
     \/ p = "LeagueConnection" /\ LeagueConnectionMounted(currentStep)
     \/ p = "PreferencesSelection" /\ PreferencesSelectionMounted(currentStep)
     \/ p = "TeamVerification"
          /\ TeamVerificationMounted(currentStep, onboardingData)
     \/ p = "SetupComplete" /\ SetupCompleteMounted(currentStep)}

\* The wizard is on screen (the router has not navigated away).
OnWizard == route = "/onboarding"

\* The connect page is on screen.
OnConnectPage == route = "/connect"

\* The local state of the step panels after a re-render that takes
\* currentStep from `old` to `new` with onboardingData `data`: a panel that
\* stays mounted keeps its state (`l`, `p`, `e`, `t`), any other panel has its
\* initial state.
Rerender(old, oldData, new, data, l, p, e, t) ==
  /\ lc' = IF LeagueConnectionMounted(new) /\ LeagueConnectionMounted(old)
             THEN l ELSE LeagueConnectionInit
  /\ ps' = IF PreferencesSelectionMounted(new) /\ PreferencesSelectionMounted(old)
             THEN p ELSE PreferencesInit
  /\ prefEdits' = IF PreferencesSelectionMounted(new)
                     /\ PreferencesSelectionMounted(old)
                    THEN e ELSE 0
  /\ tv' = IF TeamVerificationMounted(new, data)
              /\ TeamVerificationMounted(old, oldData)
             THEN t ELSE TeamVerificationInit

(***************************************************************************)
(* OnboardingContent: the emission callbacks handed to the step panels.    *)
(* Each is the whole handler with the re-render it causes; `l`, `p`, `e`,  *)
(* `t` are the panels' local states at the time of the call.               *)
(***************************************************************************)
\* faulty variant: setCurrentStep(3)
handleLeagueConnect_skips(data, l, p, e, t) ==
  /\ onboardingData' = [onboardingData EXCEPT !.league = data]
  /\ currentStep' = 3
  /\ Rerender(currentStep, onboardingData, 3,
              [onboardingData EXCEPT !.league = data], l, p, e, t)

\* faulty variant: the step advances and the payload is dropped
handleLeagueConnect_dropsPayload(data, l, p, e, t) ==
  /\ onboardingData' = onboardingData
  /\ currentStep' = 2
  /\ Rerender(currentStep, onboardingData, 2, onboardingData, l, p, e, t)

handleLeagueConnect(data, l, p, e, t) ==
  /\ onboardingData' = [onboardingData EXCEPT !.league = data]
  /\ currentStep' = 2
  /\ Rerender(currentStep, onboardingData, 2,
              [onboardingData EXCEPT !.league = data], l, p, e, t)

\* faulty variant: the merge forgets ...prev
handlePreferences_noSpread(data, l, p, e, t) ==
  /\ onboardingData' = [league |-> null, preferences |-> data, team |-> null]
  /\ currentStep' = 3
  /\ Rerender(currentStep, onboardingData, 3,
              [league |-> null, preferences |-> data, team |-> null], l, p, e, t)

handlePreferences(data, l, p, e, t) ==
  /\ onboardingData' = [onboardingData EXCEPT !.preferences = data]
  /\ currentStep' = 3
  /\ Rerender(currentStep, onboardingData, 3,
              [onboardingData EXCEPT !.preferences = data], l, p, e, t)

\* faulty variant: the merge forgets ...prev
handleTeamVerification_noSpread(data, l, p, e, t) ==
  /\ onboardingData' = [league |-> null, preferences |-> null, team |-> data]
  /\ currentStep' = 4
  /\ Rerender(currentStep, onboardingData, 4,
              [league |-> null, preferences |-> null, team |-> data], l, p, e, t)

handleTeamVerification(data, l, p, e, t) ==
  /\ onboardingData' = [onboardingData EXCEPT !.team = data]
  /\ currentStep' = 4
  /\ Rerender(currentStep, onboardingData, 4,
              [onboardingData EXCEPT !.team = data], l, p, e, t)

(***************************************************************************)
(* LeagueConnection.                                                       *)
(***************************************************************************)
\* faulty variant: a pending connect takes the platform of the tab shown
setActiveTab_retargetsPending(tab) ==
  /\ OnWizard
  /\ LeagueConnectionMounted(currentStep)
  /\ tab # lc.activeTab
  /\ lc' = [lc EXCEPT !.activeTab = tab]
  /\ connectTimers' =
       [i \in DOMAIN connectTimers |->
          [connectTimers[i] EXCEPT !.platform = tab]]
  /\ UNCHANGED <<currentStep, onboardingData, ps, prefEdits, tv,
                 verifyTimers, emissions, route, cp, cpFetch>>

\* the tab buttons: always enabled while the panel is mounted
setActiveTab(tab) ==
  /\ OnWizard
  /\ LeagueConnectionMounted(currentStep)
  /\ tab # lc.activeTab
  /\ lc' = [lc EXCEPT !.activeTab = tab]
  /\ UNCHANGED <<currentStep, onboardingData, ps, prefEdits, tv, connectTimers,
                 verifyTimers, emissions, route, cp, cpFetch>>

\* the two text inputs of the Sleeper form: rendered on the Sleeper tab,
\* never disabled
\* faulty variant: a pending connect follows the league id field
setSleeperLeagueId_retargetsPending(v) ==
  /\ OnWizard
  /\ LeagueConnectionMounted(currentStep)
  /\ lc.activeTab = "sleeper"
  /\ v # lc.sleeperData.league_id
  /\ lc' = [lc EXCEPT !.sleeperData.league_id = v]
  /\ connectTimers' =
       [i \in DOMAIN connectTimers |->
          [connectTimers[i] EXCEPT !.leagueId = v]]
  /\ UNCHANGED <<currentStep, onboardingData, ps, prefEdits, tv,
                 verifyTimers, emissions, route, cp, cpFetch>>

setSleeperLeagueId(v) ==
  /\ OnWizard
  /\ LeagueConnectionMounted(currentStep)
  /\ lc.activeTab = "sleeper"
  /\ v # lc.sleeperData.league_id
  /\ lc' = [lc EXCEPT !.sleeperData.league_id = v]
  /\ UNCHANGED <<currentStep, onboardingData, ps, prefEdits, tv, connectTimers,
                 verifyTimers, emissions, route, cp, cpFetch>>

setSleeperUsername(v) ==
  /\ OnWizard
  /\ LeagueConnectionMounted(currentStep)
  /\ lc.activeTab = "sleeper"
  /\ v # lc.sleeperData.username
  /\ lc' = [lc EXCEPT !.sleeperData.username = v]
  /\ UNCHANGED <<currentStep, onboardingData, ps, prefEdits, tv, connectTimers,
                 verifyTimers, emissions, route, cp, cpFetch>>

\* the "Connect with Yahoo" button: rendered on the Yahoo tab, disabled={loading}
\* faulty variant: the button without disabled={loading}
YahooButtonEnabled_notDisabled == lc.activeTab = "yahoo"

YahooButtonEnabled == lc.activeTab = "yahoo" /\ ~lc.loading

\* the Sleeper submit button: rendered on the Sleeper tab, disabled={loading};
\* a form whose submit button is disabled is not submitted by Enter either
\* faulty variant: the form rendered on every tab
SleeperSubmitEnabled_anyTab == ~lc.loading

SleeperSubmitEnabled == lc.activeTab = "sleeper" /\ ~lc.loading

\* the ESPN tab holds one button, always disabled, with no handler
EspnButtonEnabled == FALSE

\* the banner under the tabs: {message && <div>{message}</div>}; <<>> when
\* nothing is shown
DisplayedMessage ==
  IF LeagueConnectionMounted(currentStep) /\ lc.message # ""
    THEN <<lc.message>> ELSE <<>>

\* faulty variant: the handler without setLoading(true)
handleYahooConnect_noLoading ==
  /\ OnWizard
  /\ LeagueConnectionMounted(currentStep)
  /\ YahooButtonEnabled
  /\ Len(connectTimers) < MaxTimers
  /\ connectTimers' =
       Append(connectTimers,
              [platform |-> "yahoo", leagueId |-> "yahoo-league-123"])
  /\ UNCHANGED <<currentStep, onboardingData, lc, ps, prefEdits, tv,
                 verifyTimers, emissions, route, cp, cpFetch>>

\* faulty variant: the payload without a league id
handleYahooConnect_emptyLeagueId ==
  /\ OnWizard
  /\ LeagueConnectionMounted(currentStep)
  /\ YahooButtonEnabled
  /\ Len(connectTimers) < MaxTimers
  /\ lc' = [lc EXCEPT !.loading = TRUE]
  /\ connectTimers' =
       Append(connectTimers, [platform |-> "yahoo", leagueId |-> ""])
  /\ UNCHANGED <<currentStep, onboardingData, ps, prefEdits, tv, verifyTimers,
                 emissions, route, cp, cpFetch>>

handleYahooConnect ==
  /\ OnWizard
  /\ LeagueConnectionMounted(currentStep)
  /\ YahooButtonEnabled
  /\ Len(connectTimers) < MaxTimers
  /\ lc' = [lc EXCEPT !.loading = TRUE]
  /\ connectTimers' =
       Append(connectTimers,
              [platform |-> "yahoo", leagueId |-> "yahoo-league-123"])
  /\ UNCHANGED <<currentStep, onboardingData, ps, prefEdits, tv, verifyTimers,
                 emissions, route, cp, cpFetch>>

\* The submit event of the Sleeper form.  The handler can run with an empty
\* league id (the `required` attribute is a browser-side check the handler
\* does not rely on).
\* faulty variant: the handler without the empty-id check
handleSleeperConnect_noValidation ==
  /\ OnWizard
  /\ LeagueConnectionMounted(currentStep)
  /\ SleeperSubmitEnabled
  /\ Len(connectTimers) < MaxTimers
  /\ lc' = [lc EXCEPT !.loading = TRUE, !.message = ""]
  /\ connectTimers' =
       Append(connectTimers,
              [platform |-> "sleeper",
               leagueId |-> lc.sleeperData.league_id,
               username |-> lc.sleeperData.username])
  /\ UNCHANGED <<currentStep, onboardingData, ps, prefEdits, tv, verifyTimers,
                 emissions, route, cp, cpFetch>>

\* faulty variant: the payload without the username property
handleSleeperConnect_omitsUsername ==
  /\ OnWizard
  /\ LeagueConnectionMounted(currentStep)
  /\ SleeperSubmitEnabled
  /\ IF lc.sleeperData.league_id = ""
       THEN /\ lc' = [lc EXCEPT !.message = "League ID is required"]
            /\ UNCHANGED connectTimers
       ELSE /\ Len(connectTimers) < MaxTimers
            /\ lc' = [lc EXCEPT !.loading = TRUE, !.message = ""]
            /\ connectTimers' =
                 Append(connectTimers,
                        [platform |-> "sleeper",
                         leagueId |-> lc.sleeperData.league_id])
  /\ UNCHANGED <<currentStep, onboardingData, ps, prefEdits, tv, verifyTimers,
                 emissions, route, cp, cpFetch>>

handleSleeperConnect ==
  /\ OnWizard
  /\ LeagueConnectionMounted(currentStep)
  /\ SleeperSubmitEnabled
  /\ IF lc.sleeperData.league_id = ""
       THEN /\ lc' = [lc EXCEPT !.message = "League ID is required"]
            /\ UNCHANGED connectTimers
       ELSE /\ Len(connectTimers) < MaxTimers
            /\ lc' = [lc EXCEPT !.loading = TRUE, !.message = ""]
            /\ connectTimers' =
                 Append(connectTimers,
                        [platform |-> "sleeper",
                         leagueId |-> lc.sleeperData.league_id,
                         username |-> lc.sleeperData.username])
  /\ UNCHANGED <<currentStep, onboardingData, ps, prefEdits, tv, verifyTimers,
                 emissions, route, cp, cpFetch>>

\* A timer of LeagueConnection expires: onComplete(payload).  Timers of equal
\* delay run in the order they were set.  The callback runs whether or not
\* the panel is still mounted; once the wizard itself is gone its state
\* setters do nothing.
ConnectTimerFires ==
  /\ connectTimers # <<>>
  /\ connectTimers' = Tail(connectTimers)
  /\ emissions' = emissions + 1
  /\ IF OnWizard
       THEN handleLeagueConnect(Head(connectTimers), lc, ps, prefEdits, tv)
       ELSE UNCHANGED <<currentStep, onboardingData, lc, ps, prefEdits, tv>>
  /\ UNCHANGED <<verifyTimers, route, cp, cpFetch>>

(***************************************************************************)
(* PreferencesSelection.                                                   *)
(***************************************************************************)
\* the checkboxes the form renders, and when each is enabled
Checkboxes ==
  {"emailNotifications", "weeklyRecap", "powerRankings", "waiverReport",
   "tradeAlerts", "groupmeIntegration"}

CheckboxEnabled(field) ==
  IF field \in {"weeklyRecap", "powerRankings", "waiverReport", "tradeAlerts"}
    THEN ps.emailNotifications
    ELSE TRUE

\* faulty variant: switching email notifications off clears what depends
\* on them
togglePreference_clearsDependents(field) ==
  /\ OnWizard
  /\ PreferencesSelectionMounted(currentStep)
  /\ prefEdits < MaxPrefEdits
  /\ CheckboxEnabled(field)
  /\ ps' = IF field = "emailNotifications" /\ ps.emailNotifications
             THEN [ps EXCEPT !.emailNotifications = FALSE,
                             !.weeklyRecap = FALSE,
                             !.powerRankings = FALSE,
                             !.waiverReport = FALSE,
                             !.tradeAlerts = FALSE]
             ELSE [ps EXCEPT ![field] = ~ps[field]]
  /\ prefEdits' = prefEdits + 1
  /\ UNCHANGED <<currentStep, onboardingData, lc, tv, connectTimers,
                 verifyTimers, emissions, route, cp, cpFetch>>

\* onChange of a checkbox: the field takes the box's new checked state
togglePreference(field) ==
  /\ OnWizard
  /\ PreferencesSelectionMounted(currentStep)
  /\ prefEdits < MaxPrefEdits
  /\ CheckboxEnabled(field)
  /\ ps' = [ps EXCEPT ![field] = ~ps[field]]
  /\ prefEdits' = prefEdits + 1
  /\ UNCHANGED <<currentStep, onboardingData, lc, tv, connectTimers,
                 verifyTimers, emissions, route, cp, cpFetch>>

\* the recap day and time controls exist only while weeklyRecap and
\* emailNotifications are both on
setRecapDay(day) ==
  /\ OnWizard
  /\ PreferencesSelectionMounted(currentStep)
  /\ prefEdits < MaxPrefEdits
  /\ ps.weeklyRecap /\ ps.emailNotifications
  /\ day # ps.recapDay
  /\ ps' = [ps EXCEPT !.recapDay = day]
  /\ prefEdits' = prefEdits + 1
  /\ UNCHANGED <<currentStep, onboardingData, lc, tv, connectTimers,
                 verifyTimers, emissions, route, cp, cpFetch>>

setRecapTime(time) ==
  /\ OnWizard
  /\ PreferencesSelectionMounted(currentStep)
  /\ prefEdits < MaxPrefEdits
  /\ ps.weeklyRecap /\ ps.emailNotifications
  /\ time # ps.recapTime
  /\ ps' = [ps EXCEPT !.recapTime = time]
  /\ prefEdits' = prefEdits + 1
  /\ UNCHANGED <<currentStep, onboardingData, lc, tv, connectTimers,
                 verifyTimers, emissions, route, cp, cpFetch>>

\* the group id input exists only while groupmeIntegration is on
setGroupmeGroupId(id) ==
  /\ OnWizard
  /\ PreferencesSelectionMounted(currentStep)
  /\ prefEdits < MaxPrefEdits
  /\ ps.groupmeIntegration
  /\ id # ps.groupmeGroupId
  /\ ps' = [ps EXCEPT !.groupmeGroupId = id]
  /\ prefEdits' = prefEdits + 1
  /\ UNCHANGED <<currentStep, onboardingData, lc, tv, connectTimers,
                 verifyTimers, emissions, route, cp, cpFetch>>

\* faulty variant: a submit that insists on a group id for GroupMe
handleSubmit_validates ==
  /\ OnWizard
  /\ PreferencesSelectionMounted(currentStep)
  /\ ps.groupmeIntegration => ps.groupmeGroupId # ""
  /\ handlePreferences(ps, lc, ps, prefEdits, tv)
  /\ UNCHANGED <<connectTimers, verifyTimers, emissions, route, cp, cpFetch>>

\* handleSubmit of the preferences form: onComplete(preferences)
handleSubmit ==
  /\ OnWizard
  /\ PreferencesSelectionMounted(currentStep)
  /\ handlePreferences(ps, lc, ps, prefEdits, tv)
  /\ UNCHANGED <<connectTimers, verifyTimers, emissions, route, cp, cpFetch>>

(***************************************************************************)
(* TeamVerification.                                                       *)
(***************************************************************************)
\* faulty variant: picking a candidate writes the session directly
setSelectedTeam_writesSession(id) ==
  /\ OnWizard
  /\ TeamVerificationMounted(currentStep, onboardingData)
  /\ id # tv.selectedTeam
  /\ tv' = [tv EXCEPT !.selectedTeam = id]
  /\ onboardingData' = [onboardingData EXCEPT !.team = [teamId |-> id]]
  /\ UNCHANGED <<currentStep, lc, ps, prefEdits, connectTimers,
                 verifyTimers, emissions, route, cp, cpFetch>>

\* faulty variant: a pending verify follows the selection
setSelectedTeam_retargetsPending(id) ==
  /\ OnWizard
  /\ TeamVerificationMounted(currentStep, onboardingData)
  /\ id # tv.selectedTeam
  /\ tv' = [tv EXCEPT !.selectedTeam = id]
  /\ verifyTimers' = [i \in DOMAIN verifyTimers |-> [teamId |-> id]]
  /\ UNCHANGED <<currentStep, onboardingData, lc, ps, prefEdits, connectTimers,
                 emissions, route, cp, cpFetch>>

\* the radio inputs: never disabled
setSelectedTeam(id) ==
  /\ OnWizard
  /\ TeamVerificationMounted(currentStep, onboardingData)
  /\ id # tv.selectedTeam
  /\ tv' = [tv EXCEPT !.selectedTeam = id]
  /\ UNCHANGED <<currentStep, onboardingData, lc, ps, prefEdits, connectTimers,
                 verifyTimers, emissions, route, cp, cpFetch>>

\* the "Verify Team" button: disabled={!selectedTeam || loading}
VerifyButtonEnabled == ~(tv.selectedTeam = "" \/ tv.loading)

\* faulty variant: the busy flag is raised and no timer is set
handleVerify_noTimer ==
  /\ OnWizard
  /\ TeamVerificationMounted(currentStep, onboardingData)
  /\ VerifyButtonEnabled
  /\ tv.selectedTeam # ""
  /\ tv' = [tv EXCEPT !.loading = TRUE]
  /\ UNCHANGED <<currentStep, onboardingData, lc, ps, prefEdits, connectTimers,
                 verifyTimers, emissions, route, cp, cpFetch>>

\* faulty variant: handleVerify without its early return
handleVerify_noSelectionCheck ==
  /\ OnWizard
  /\ TeamVerificationMounted(currentStep, onboardingData)
  /\ ~tv.loading
  /\ Len(verifyTimers) < MaxTimers
  /\ tv' = [tv EXCEPT !.loading = TRUE]
  /\ verifyTimers' = Append(verifyTimers, [teamId |-> tv.selectedTeam])
  /\ UNCHANGED <<currentStep, onboardingData, lc, ps, prefEdits, connectTimers,
                 emissions, route, cp, cpFetch>>

handleVerify ==
  /\ OnWizard
  /\ TeamVerificationMounted(currentStep, onboardingData)
  /\ VerifyButtonEnabled
  /\ tv.selectedTeam # ""
  /\ Len(verifyTimers) < MaxTimers
  /\ tv' = [tv EXCEPT !.loading = TRUE]
  /\ verifyTimers' = Append(verifyTimers, [teamId |-> tv.selectedTeam])
  /\ UNCHANGED <<currentStep, onboardingData, lc, ps, prefEdits, connectTimers,
                 emissions, route, cp, cpFetch>>

\* faulty variant: the callback writes the session of a discarded wizard
VerifyTimerFires_updatesUnmounted ==
  /\ verifyTimers # <<>>
  /\ verifyTimers' = Tail(verifyTimers)
  /\ handleTeamVerification(Head(verifyTimers), lc, ps, prefEdits, tv)
  /\ UNCHANGED <<connectTimers, emissions, route, cp, cpFetch>>

\* faulty variant: the callback reads the selection when it fires
VerifyTimerFires_readsSelectionLate ==
  /\ verifyTimers # <<>>
  /\ verifyTimers' = Tail(verifyTimers)
  /\ IF OnWizard
       THEN handleTeamVerification([teamId |-> tv.selectedTeam],
                                   lc, ps, prefEdits, tv)
       ELSE UNCHANGED <<currentStep, onboardingData, lc, ps, prefEdits, tv>>
  /\ UNCHANGED <<connectTimers, emissions, route, cp, cpFetch>>

\* A timer of TeamVerification expires: onComplete({teamId}).
VerifyTimerFires ==
  /\ verifyTimers # <<>>
  /\ verifyTimers' = Tail(verifyTimers)
  /\ IF OnWizard
       THEN handleTeamVerification(Head(verifyTimers), lc, ps, prefEdits, tv)
       ELSE UNCHANGED <<currentStep, onboardingData, lc, ps, prefEdits, tv>>
  /\ UNCHANGED <<connectTimers, emissions, route, cp, cpFetch>>

(***************************************************************************)
(* SetupComplete.                                                          *)
(***************************************************************************)
\* the leagueId prop: onboardingData.league?.leagueId
\* faulty variant: the prop read from the wrong field of the session
leagueIdProp_wrongField == Get(onboardingData.team, "leagueId")

leagueIdProp == Get(onboardingData.league, "leagueId")

\* faulty variant: the target without the check of the prop
SettingsTarget_unconditional(leagueId) ==
  "/settings/" \o (IF leagueId # undefined THEN leagueId[1] ELSE "undefined")

\* the target of handleGoToSettings for a leagueId prop
SettingsTarget(leagueId) ==
  IF leagueId # undefined /\ leagueId[1] # ""
    THEN "/settings/" \o leagueId[1]
    ELSE "/dashboard"

handleGoToSettings ==
  /\ OnWizard
  /\ SetupCompleteMounted(currentStep)
  /\ route' = SettingsTarget(leagueIdProp)
  /\ UNCHANGED <<currentStep, onboardingData, lc, ps, prefEdits, tv,
                 connectTimers, verifyTimers, emissions, cp, cpFetch>>

\* faulty variant: leaving for the demo rewinds the wizard
GoToDemo_rewinds ==
  /\ OnWizard
  /\ SetupCompleteMounted(currentStep)
  /\ route' = "/demo"
  /\ currentStep' = CONNECT
  /\ onboardingData' = OnboardingDataInit
  /\ UNCHANGED <<lc, ps, prefEdits, tv,
                 connectTimers, verifyTimers, emissions, cp, cpFetch>>

\* the "See Demo Content" button
GoToDemo ==
  /\ OnWizard
  /\ SetupCompleteMounted(currentStep)
  /\ route' = "/demo"
  /\ UNCHANGED <<currentStep, onboardingData, lc, ps, prefEdits, tv,
                 connectTimers, verifyTimers, emissions, cp, cpFetch>>

(***************************************************************************)
(* The root layout around the wizard.                                      *)
(***************************************************************************)
\* The brand link of the navigation bar, followed while the wizard is on
\* screen: the router leaves the page and OnboardingContent is unmounted.
\* The session is discarded as it is; timers that are pending stay pending.
NavigateAway ==
  /\ OnWizard
  /\ route' = "/"
  /\ UNCHANGED <<currentStep, onboardingData, lc, ps, prefEdits, tv,
                 connectTimers, verifyTimers, emissions, cp, cpFetch>>

(***************************************************************************)
(* ConnectPage.                                                            *)
(***************************************************************************)
\* useState() initial values of ConnectPage
ConnectPageInit ==
  [activeTab |-> "yahoo",
   sleeperData |-> [league_id |-> "", username |-> ""],
   loading |-> FALSE,
   message |-> "",
   step |-> 1]

\* the sequence q without its i-th element
RemoveAt(q, i) == SubSeq(q, 1, i - 1) \o SubSeq(q, i + 1, Len(q))

\* the tabs and both forms are rendered while step = 1
cpSetActiveTab(tab) ==
  /\ OnConnectPage
  /\ cp.step = 1
  /\ tab # cp.activeTab
  /\ cp' = [cp EXCEPT !.activeTab = tab]
  /\ UNCHANGED <<wizardVars, cpFetch>>

cpSetSleeperLeagueId(v) ==
  /\ OnConnectPage
  /\ cp.step = 1
  /\ cp.activeTab = "sleeper"
  /\ v # cp.sleeperData.league_id
  /\ cp' = [cp EXCEPT !.sleeperData.league_id = v]
  /\ UNCHANGED <<wizardVars, cpFetch>>

cpSetSleeperUsername(v) ==
  /\ OnConnectPage
  /\ cp.step = 1
  /\ cp.activeTab = "sleeper"
  /\ v # cp.sleeperData.username
  /\ cp' = [cp EXCEPT !.sleeperData.username = v]
  /\ UNCHANGED <<wizardVars, cpFetch>>

\* "Connect with Yahoo": window.location.href = '/auth/yahoo/start'.  The
\* page is unloaded and whatever it was waiting for is abandoned.
cpHandleYahooConnect ==
  /\ OnConnectPage
  /\ cp.step = 1
  /\ cp.activeTab = "yahoo"
  /\ route' = "/auth/yahoo/start"
  /\ cp' = ConnectPageInit
  /\ cpFetch' = <<>>
  /\ UNCHANGED <<currentStep, onboardingData, lc, ps, prefEdits, tv,
                 connectTimers, verifyTimers, emissions>>

\* the banner of step 1: {message && <div>{message}</div>}; <<>> when
\* nothing is shown
cpDisplayedMessage ==
  IF cp.step = 1 /\ cp.message # "" THEN <<cp.message>> ELSE <<>>

\* the submit button of the Sleeper form: disabled={loading}
cpSleeperSubmitEnabled == cp.activeTab = "sleeper" /\ ~cp.loading

\* handleSleeperConnect up to its first await
cpHandleSleeperConnect ==
  /\ OnConnectPage
  /\ cp.step = 1
  /\ cpSleeperSubmitEnabled
  /\ IF cp.sleeperData.league_id = ""
       THEN /\ cp' = [cp EXCEPT !.message = "League ID is required"]
            /\ UNCHANGED cpFetch
       ELSE /\ Len(cpFetch) < MaxTimers
            /\ cp' = [cp EXCEPT !.loading = TRUE, !.message = ""]
            /\ cpFetch' = Append(cpFetch,
                                 [phase |-> "fetch", body |-> cp.sleeperData])
  /\ UNCHANGED wizardVars

\* fetch() resolves with a 2xx response: the rest of the handler
cpResponseOk(i) ==
  /\ OnConnectPage
  /\ cpFetch[i].phase = "fetch"
  /\ cp' = [cp EXCEPT !.message = "Sleeper league connected successfully!",
                      !.sleeperData = [league_id |-> "", username |-> ""],
                      !.step = 2,
                      !.loading = FALSE]
  /\ cpFetch' = RemoveAt(cpFetch, i)
  /\ UNCHANGED wizardVars

\* fetch() resolves with another status: the handler awaits response.text()
cpResponseNotOk(i, body) ==
  /\ OnConnectPage
  /\ cpFetch[i].phase = "fetch"
  /\ cpFetch' = [cpFetch EXCEPT ![i] = [phase |-> "text", error |-> body]]
  /\ UNCHANGED <<wizardVars, cp>>

\* the message shown for a response that was refused with the text `error`
\* faulty variant: the response text alone
FailedMessage_bodyOnly(error) == error

\* faulty variant: a fixed text without the response text
FailedMessage_generic(error) == "Failed to connect"

FailedMessage(error) == "Failed to connect: " \o error

\* response.text() resolves: the else branch and the finally block
\* faulty variant: no finally block
cpTextResolves_loadingStuck(i) ==
  /\ OnConnectPage
  /\ cpFetch[i].phase = "text"
  /\ cp' = [cp EXCEPT !.message = FailedMessage(cpFetch[i].error)]
  /\ cpFetch' = RemoveAt(cpFetch, i)
  /\ UNCHANGED wizardVars

cpTextResolves(i) ==
  /\ OnConnectPage
  /\ cpFetch[i].phase = "text"
  /\ cp' = [cp EXCEPT !.message = FailedMessage(cpFetch[i].error),
                      !.loading = FALSE]
  /\ cpFetch' = RemoveAt(cpFetch, i)
  /\ UNCHANGED wizardVars

\* fetch() or response.text() rejects: the catch and the finally block
cpRequestThrows(i) ==
  /\ OnConnectPage
  /\ cpFetch[i].phase \in {"fetch", "text"}
  /\ cp' = [cp EXCEPT !.message = "Network error occurred",
                      !.loading = FALSE]
  /\ cpFetch' = RemoveAt(cpFetch, i)
  /\ UNCHANGED wizardVars

\* the two links of step 2; the page is left and its state discarded
cpFollowLink(href) ==
  /\ OnConnectPage
  /\ cp.step = 2
  /\ route' = href
  /\ cp' = ConnectPageInit
  /\ cpFetch' = <<>>
  /\ UNCHANGED <<currentStep, onboardingData, lc, ps, prefEdits, tv,
                 connectTimers, verifyTimers, emissions>>

(***************************************************************************)
(* The specification.                                                      *)
(***************************************************************************)
Init ==
  /\ route \in {"/onboarding", "/connect"}
  /\ currentStep = 1
  /\ onboardingData = OnboardingDataInit
  /\ lc = LeagueConnectionInit
  /\ ps = PreferencesInit
  /\ prefEdits = 0
  /\ tv = TeamVerificationInit
  /\ connectTimers = <<>>
  /\ verifyTimers = <<>>
  /\ emissions = 0
  /\ cp = ConnectPageInit
  /\ cpFetch = <<>>

Next ==
  \/ \E tab \in Tabs : setActiveTab(tab)
  \/ \E v \in TypedLeagueIds : setSleeperLeagueId(v)
  \/ \E v \in TypedUsernames : setSleeperUsername(v)
  \/ handleYahooConnect
  \/ handleSleeperConnect
  \/ ConnectTimerFires
  \/ \E field \in Checkboxes : togglePreference(field)
  \/ \E day \in RecapDays : setRecapDay(day)
  \/ \E time \in TypedRecapTimes : setRecapTime(time)
  \/ \E id \in TypedGroupIds : setGroupmeGroupId(id)
  \/ handleSubmit
  \/ \E id \in mockTeams : setSelectedTeam(id)
  \/ handleVerify
  \/ VerifyTimerFires
  \/ handleGoToSettings
  \/ GoToDemo
  \/ NavigateAway
  \/ \E tab \in Tabs : cpSetActiveTab(tab)
  \/ \E v \in TypedLeagueIds : cpSetSleeperLeagueId(v)
  \/ \E v \in TypedUsernames : cpSetSleeperUsername(v)
  \/ cpHandleYahooConnect
  \/ cpHandleSleeperConnect
  \/ \E i \in DOMAIN cpFetch : cpResponseOk(i)
  \/ \E i \in DOMAIN cpFetch : \E body \in ResponseBodies : cpResponseNotOk(i, body)
  \/ \E i \in DOMAIN cpFetch : cpTextResolves(i)
  \/ \E i \in DOMAIN cpFetch : cpRequestThrows(i)
  \/ \E href \in {"/settings/onboarding", "/demo"} : cpFollowLink(href)

Spec == Init /\ [][Next]_vars

\* A timer that has been set expires: the event loop runs every callback
\* that is due.
FairSpec ==
  Spec /\ WF_vars(ConnectTimerFires) /\ WF_vars(VerifyTimerFires)

\* SetupComplete on its own: the component rendered with any session its
\* parent may hold, the leagueId prop being a non-empty id, the empty string
\* or missing.
LeagueSelections ==
  {null, [platform |-> "yahoo", leagueId |-> "yahoo-league-123"]}
    \cup [platform : {"sleeper"}, leagueId : TypedLeagueIds,
          username : TypedUsernames]

SetupCompleteInit ==
  /\ route = "/onboarding"
  /\ currentStep = COMPLETE
  /\ onboardingData \in
       [league : LeagueSelections,
        preferences : {null, PreferencesInit},
        team : {null} \cup [teamId : mockTeams]]
  /\ lc = LeagueConnectionInit
  /\ ps = PreferencesInit
  /\ prefEdits = 0
  /\ tv = TeamVerificationInit
  /\ connectTimers = <<>>
  /\ verifyTimers = <<>>
  /\ emissions = 0
  /\ cp = ConnectPageInit
  /\ cpFetch = <<>>

SetupCompleteNext == handleGoToSettings \/ GoToDemo

SetupCompleteSpec == SetupCompleteInit /\ [][SetupCompleteNext]_vars

\* The PREFERENCES step on its own: OnboardingContent showing the
\* preferences form whatever its league field holds, null (its initial
\* value) included, so that handlePreferences is applied to every session.
PreferencesStepInit ==
  /\ route = "/onboarding"
  /\ currentStep = PREFERENCES
  /\ onboardingData \in
       [league : LeagueSelections, preferences : {null}, team : {null}]
  /\ lc = LeagueConnectionInit
  /\ ps = PreferencesInit
  /\ prefEdits = 0
  /\ tv = TeamVerificationInit
  /\ connectTimers = <<>>
  /\ verifyTimers = <<>>
  /\ emissions = 0
  /\ cp = ConnectPageInit
  /\ cpFetch = <<>>

PreferencesStepNext ==
  \/ \E field \in Checkboxes : togglePreference(field)
  \/ \E day \in RecapDays : setRecapDay(day)
  \/ \E time \in TypedRecapTimes : setRecapTime(time)
  \/ \E id \in TypedGroupIds : setGroupmeGroupId(id)
  \/ handleSubmit

PreferencesStepSpec == PreferencesStepInit /\ [][PreferencesStepNext]_vars

(***************************************************************************)
(* Properties of the onboarding wizard and of the connect page.            *)
(***************************************************************************)

\* C1: every change of currentStep goes from a step to its immediate
\* successor; currentStep never decreases and never skips a step.
C1_StepAdvancesByOne ==
  [][currentStep' # currentStep => currentStep' = currentStep + 1]_vars

\* the wizard has gone through every step
C1_Witness ==
  currentStep = COMPLETE /\ connectTimers = <<>> /\ verifyTimers = <<>>

\* C2: at COMPLETE, league, preferences and team are all populated.
C2_CompleteHasAllThree ==
  currentStep = COMPLETE =>
    /\ onboardingData.league # null
    /\ onboardingData.preferences # null
    /\ onboardingData.team # null

C2_Witness ==
  /\ currentStep = COMPLETE
  /\ onboardingData.league # null
  /\ onboardingData.preferences # null
  /\ onboardingData.team # null
  /\ OnWizard

\* C3: the TeamVerification panel is never rendered while league is absent.
C3_VerifyRenderedOnlyWithLeague ==
  "TeamVerification" \in RenderedPanels => onboardingData.league # null

C3_Witness ==
  "TeamVerification" \in RenderedPanels /\ tv.selectedTeam = ""

\* C4: a Sleeper submission with an empty league id is rejected locally: the
\* message becomes "League ID is required", nothing is started (the in-flight
\* flag stays false), nothing is emitted, and the step and the session stay
\* as they are.  Stated for the wizard's form and for the connect page's.
C4_EmptyLeagueIdRejected ==
  [][/\ (handleSleeperConnect /\ lc.sleeperData.league_id = "") =>
          /\ DisplayedMessage' = <<"League ID is required">>
          /\ lc.loading = FALSE /\ lc'.loading = FALSE
          /\ connectTimers = <<>> /\ connectTimers' = <<>>
          /\ emissions' = emissions
          /\ currentStep = CONNECT /\ currentStep' = CONNECT
          /\ onboardingData' = onboardingData
     /\ (cpHandleSleeperConnect /\ cp.sleeperData.league_id = "") =>
          /\ cpDisplayedMessage' = <<"League ID is required">>
          /\ cp.loading = FALSE /\ cp'.loading = FALSE
          /\ cpFetch = <<>> /\ cpFetch' = <<>>
          /\ cp.step = 1 /\ cp'.step = 1]_vars

C4_Witness ==
  /\ DisplayedMessage = <<"League ID is required">>
  /\ lc.sleeperData.league_id = ""
  /\ ~lc.loading
  /\ connectTimers = <<>>
  /\ currentStep = CONNECT

\* What a Sleeper submission with league id L and no username entered leads
\* to, with `username` the value read from the username property: the
\* submission starts one connect that carries {sleeper, L, username}, and the
\* completion of such a connect records exactly that as league and advances
\* CONNECT -> PREFERENCES.
SleeperConnectYields(username) ==
  /\ (handleSleeperConnect /\ lc.sleeperData.league_id # ""
        /\ lc.sleeperData.username = "") =>
          /\ Len(connectTimers') = 1
          /\ connectTimers'[1].platform = "sleeper"
          /\ connectTimers'[1].leagueId = lc.sleeperData.league_id
          /\ Get(connectTimers'[1], "username") = username
  /\ (ConnectTimerFires /\ OnWizard /\ connectTimers # <<>>
        /\ connectTimers[1].platform = "sleeper"
        /\ Get(connectTimers[1], "username") = username) =>
          /\ onboardingData'.league.platform = "sleeper"
          /\ onboardingData'.league.leagueId = connectTimers[1].leagueId
          /\ onboardingData'.league.leagueId # ""
          /\ Get(onboardingData'.league, "username") = username
          /\ currentStep = CONNECT /\ currentStep' = PREFERENCES

\* C5 as stated: a Sleeper submission with league id L and no username
\* entered, followed by the connect's completion, sets league to {platform:
\* sleeper, leagueId: L, username: undefined} and advances CONNECT ->
\* PREFERENCES.
C5_AsStated == [][SleeperConnectYields(undefined)]_vars

\* C5, amended: the same, with league.username the empty string the form
\* held.
C5_SleeperConnectRecordsLeague == [][SleeperConnectYields(<<"">>)]_vars

C5_Witness ==
  /\ currentStep = PREFERENCES
  /\ onboardingData.league =
       [platform |-> "sleeper", leagueId |-> "123", username |-> ""]

\* C6: when the league-connect request is answered with a non-2xx status,
\* the message shown contains the response's body text, nothing is emitted,
\* no league is recorded and the step stays where it was (the first).
C6_RejectionShowsBody ==
  [][\A i \in DOMAIN cpFetch :
       (cpFetch[i].phase = "text" /\ cpTextResolves(i)) =>
          /\ cpDisplayedMessage' # <<>>
          /\ Includes(cpDisplayedMessage'[1], cpFetch[i].error)
          /\ cp.step = 1 /\ cp'.step = 1
          /\ emissions' = emissions
          /\ onboardingData' = onboardingData
          /\ currentStep' = currentStep]_vars

C6_Witness ==
  /\ cpDisplayedMessage = <<"Failed to connect: league not found">>
  /\ cp.step = 1
  /\ cpFetch = <<>>

\* C7: when the league-connect request fails with a thrown transport error,
\* a generic network-error message is shown, which differs from every
\* message a refused request produces, and the step does not advance.
C7_TransportErrorIsGeneric ==
  [][\A i \in DOMAIN cpFetch :
       cpRequestThrows(i) =>
          /\ cpDisplayedMessage' = <<"Network error occurred">>
          /\ \A body \in ResponseBodies :
               cpDisplayedMessage' # <<FailedMessage(body)>>
          /\ cp.step = 1 /\ cp'.step = 1
          /\ currentStep' = currentStep]_vars

C7_Witness ==
  /\ cpDisplayedMessage = <<"Network error occurred">>
  /\ cp.step = 1
  /\ cp.sleeperData.league_id # ""

\* C8: after any failure of the connect step (local validation, refused
\* request, transport failure) nothing is in flight and the submit control
\* is not disabled, so the step can be resubmitted; the in-flight flag of a
\* panel on screen is never true without an operation pending.
C8_FailureLeavesStepResubmittable ==
  [][/\ (handleSleeperConnect /\ lc.sleeperData.league_id = "") =>
          /\ ~lc'.loading /\ connectTimers' = <<>>
          /\ LeagueConnectionMounted(currentStep')
          /\ SleeperSubmitEnabled'
     /\ (cpHandleSleeperConnect /\ cp.sleeperData.league_id = "") =>
          /\ ~cp'.loading /\ cpFetch' = <<>>
          /\ cp'.step = 1
          /\ cpSleeperSubmitEnabled'
     /\ \A i \in DOMAIN cpFetch :
          (cpTextResolves(i) \/ cpRequestThrows(i)) =>
             /\ ~cp'.loading /\ cpFetch' = <<>>
             /\ cp'.step = 1
             /\ (cp'.activeTab = "sleeper" => cpSleeperSubmitEnabled')
     /\ (cp'.loading => cpFetch' # <<>>)
     /\ ((OnWizard' /\ lc'.loading) => connectTimers' # <<>>)]_vars

C8_Witness ==
  /\ cp.message \in {FailedMessage(b) : b \in ResponseBodies}
                      \cup {"Network error occurred", "League ID is required"}
  /\ ~cp.loading
  /\ cpFetch = <<>>
  /\ cp.step = 1
  /\ cpSleeperSubmitEnabled

\* C9: within one LeagueConnection at most one connect operation is in
\* flight; while one is pending the in-flight flag is true, the Yahoo button
\* and the Sleeper submit button are disabled, and no user action can start
\* another operation.
C9_OneConnectInFlight ==
  /\ Len(connectTimers) <= 1
  /\ (connectTimers # <<>> /\ LeagueConnectionMounted(currentStep)) =>
        /\ lc.loading
        /\ ~YahooButtonEnabled
        /\ ~SleeperSubmitEnabled
        /\ ~ENABLED handleYahooConnect
        /\ ~ENABLED handleSleeperConnect

C9_Witness ==
  /\ Len(connectTimers) = 1
  /\ LeagueConnectionMounted(currentStep)
  /\ lc.loading
  /\ lc.activeTab = "yahoo"
  /\ connectTimers[1].platform = "sleeper"

\* C10: LeagueConnection's onComplete is called once per connect that
\* completes and never more than once in total; a connect operation is
\* started only by the Yahoo button or the Sleeper submission, never again
\* by the completion itself.
C10_OneEmission ==
  [][/\ emissions' <= 1
     /\ emissions' # emissions =>
          /\ emissions' = emissions + 1
          /\ connectTimers # <<>>
          /\ connectTimers' = Tail(connectTimers)
     /\ Len(connectTimers') > Len(connectTimers) =>
          handleYahooConnect \/ handleSleeperConnect
     /\ (OnWizard /\ currentStep' # CONNECT) => emissions' = 1]_vars

C10_Witness ==
  emissions = 1 /\ currentStep = PREFERENCES /\ connectTimers = <<>>

\* C11: the ESPN branch never emits: while the ESPN tab is active no control
\* that starts a connect is available, and neither a pending connect nor the
\* recorded league ever carries a platform other than yahoo or sleeper.
C11_EspnNeverEmits ==
  /\ onboardingData.league # null =>
       onboardingData.league.platform \in {"yahoo", "sleeper"}
  /\ \A i \in DOMAIN connectTimers :
       connectTimers[i].platform \in {"yahoo", "sleeper"}
  /\ (OnWizard /\ LeagueConnectionMounted(currentStep) /\ lc.activeTab = "espn") =>
       /\ ~EspnButtonEnabled
       /\ ~YahooButtonEnabled
       /\ ~SleeperSubmitEnabled
       /\ ~ENABLED handleYahooConnect
       /\ ~ENABLED handleSleeperConnect

C11_Witness ==
  /\ OnWizard
  /\ LeagueConnectionMounted(currentStep)
  /\ lc.activeTab = "espn"
  /\ lc.sleeperData.league_id # ""
  /\ ~lc.loading

\* C12: the Yahoo connect needs no form input: on the Yahoo tab of the idle
\* CONNECT step the action is available whatever the Sleeper form holds, it
\* starts one connect, and the completion of that connect puts the wizard at
\* PREFERENCES with league = {platform: yahoo, leagueId} with a non-empty
\* leagueId.  Since a timer that is set expires, a started Yahoo connect
\* leads to that state as long as the wizard stays on screen.
C12_YahooConnectReachesPreferences ==
  /\ [](( /\ OnWizard
          /\ currentStep = CONNECT
          /\ lc.activeTab = "yahoo"
          /\ connectTimers = <<>>) => ENABLED handleYahooConnect)
  /\ [][/\ handleYahooConnect =>
             /\ connectTimers = <<>>
             /\ Len(connectTimers') = 1
             /\ connectTimers'[1].platform = "yahoo"
             /\ lc'.sleeperData = lc.sleeperData
        /\ (ConnectTimerFires /\ OnWizard /\ connectTimers # <<>>
              /\ connectTimers[1].platform = "yahoo") =>
             /\ currentStep = CONNECT /\ currentStep' = PREFERENCES
             /\ DOMAIN onboardingData'.league = {"platform", "leagueId"}
             /\ onboardingData'.league.platform = "yahoo"
             /\ onboardingData'.league.leagueId # ""]_vars
  /\ ((OnWizard /\ connectTimers # <<>> /\ connectTimers[1].platform = "yahoo")
        ~> (\/ ~OnWizard
            \/ /\ currentStep = PREFERENCES
               /\ onboardingData.league # null
               /\ onboardingData.league.platform = "yahoo"
               /\ onboardingData.league.leagueId # ""))

C12_Witness ==
  /\ OnWizard
  /\ currentStep = PREFERENCES
  /\ onboardingData.league =
       [platform |-> "yahoo", leagueId |-> "yahoo-league-123"]

C14_TeamIsACandidate ==
  /\ (OnWizard /\ TeamVerificationMounted(currentStep, onboardingData)
        /\ tv.selectedTeam = "") =>
       /\ ~VerifyButtonEnabled
       /\ ~ENABLED handleVerify
       /\ verifyTimers = <<>>
  /\ \A i \in DOMAIN verifyTimers : verifyTimers[i].teamId \in mockTeams
  /\ onboardingData.team # null =>
       /\ onboardingData.team.teamId \in mockTeams
       /\ onboardingData.team.teamId # ""

C14_Witness ==
  /\ currentStep = COMPLETE
  /\ onboardingData.team # null
  /\ onboardingData.team.teamId \in mockTeams

\* C15: in the VERIFY step, confirming with candidate c selected starts a
\* verify that carries c; when that verify completes the wizard goes from
\* VERIFY to COMPLETE with team = {teamId: c}, league and preferences as
\* they were; and a started verify leads to that state as long as the wizard
\* stays on screen.
C15_VerifyReachesComplete ==
  /\ [][/\ handleVerify =>
             /\ currentStep = VERIFY
             /\ tv.selectedTeam \in mockTeams
             /\ verifyTimers' = <<[teamId |-> tv.selectedTeam]>>
        /\ (VerifyTimerFires /\ OnWizard) =>
             /\ currentStep = VERIFY /\ currentStep' = COMPLETE
             /\ onboardingData'.team = [teamId |-> verifyTimers[1].teamId]
             /\ onboardingData'.league = onboardingData.league
             /\ onboardingData'.preferences = onboardingData.preferences]_vars
  /\ ((OnWizard /\ verifyTimers # <<>>)
        ~> (\/ ~OnWizard
            \/ /\ currentStep = COMPLETE
               /\ onboardingData.team # null
               /\ onboardingData.team.teamId \in mockTeams))

\* candidate "3" was confirmed, the selection was then moved, and the verify
\* completed
C15_Witness ==
  /\ currentStep = COMPLETE
  /\ onboardingData.team = [teamId |-> "3"]
  /\ onboardingData.league # null
  /\ onboardingData.preferences # null

\* C16: the "Go to League Settings" action of the completion step targets
\* /settings/{leagueId} when league.leagueId is present (a non-empty id) and
\* the generic dashboard path when there is no league or no id; the "See Demo
\* Content" action targets /demo whatever the session holds.
C16_CompletionRouting ==
  [][/\ handleGoToSettings =>
          /\ \A id \in TypedLeagueIds \cup {"yahoo-league-123"} :
               (id # "" /\ onboardingData.league # null
                  /\ onboardingData.league.leagueId = id)
                 => route' = "/settings/" \o id
          /\ (onboardingData.league = null
                \/ onboardingData.league.leagueId = "")
               => route' = "/dashboard"
     /\ GoToDemo => route' = "/demo"
     /\ (handleGoToSettings \/ GoToDemo) =>
          UNCHANGED <<currentStep, onboardingData>>]_vars

\* the action taken without a league
C16_Witness ==
  /\ route = "/dashboard"
  /\ currentStep = COMPLETE
  /\ onboardingData.league = null

\* C17: submitting the preferences step succeeds from every form state: the
\* submit is available whenever the form is on screen, it starts no
\* asynchronous operation, and in that one step session.preferences becomes
\* the form's full current record, field for field, and currentStep becomes
\* VERIFY; league and team are left alone.
C17_SubmitAlwaysSucceeds ==
  /\ []((OnWizard /\ PreferencesSelectionMounted(currentStep)) =>
          ENABLED handleSubmit)
  /\ [][handleSubmit =>
          /\ currentStep = PREFERENCES /\ currentStep' = VERIFY
          /\ onboardingData'.preferences = ps
          /\ DOMAIN onboardingData'.preferences = DOMAIN PreferencesInit
          /\ onboardingData'.league = onboardingData.league
          /\ onboardingData'.team = onboardingData.team
          /\ UNCHANGED <<connectTimers, verifyTimers>>]_vars

\* a form with GroupMe switched on and no group id was submitted
C17_Witness ==
  /\ currentStep = VERIFY
  /\ onboardingData.preferences # null
  /\ onboardingData.preferences.groupmeIntegration
  /\ onboardingData.preferences.groupmeGroupId = ""
  /\ connectTimers = <<>> /\ verifyTimers = <<>>

\* C18: a preferences step submitted without any edit emits exactly the
\* defaults: emailNotifications, weeklyRecap, powerRankings, waiverReport and
\* tradeAlerts on, injuryAlerts and groupmeIntegration off, recapDay tuesday,
\* recapTime 09:00 (and an empty groupmeGroupId).
C18_UneditedSubmitEmitsDefaults ==
  [][(handleSubmit /\ prefEdits = 0) =>
       /\ onboardingData'.preferences.emailNotifications = TRUE
       /\ onboardingData'.preferences.weeklyRecap = TRUE
       /\ onboardingData'.preferences.recapDay = "tuesday"
       /\ onboardingData'.preferences.recapTime = "09:00"
       /\ onboardingData'.preferences.powerRankings = TRUE
       /\ onboardingData'.preferences.waiverReport = TRUE
       /\ onboardingData'.preferences.injuryAlerts = FALSE
       /\ onboardingData'.preferences.tradeAlerts = TRUE
       /\ onboardingData'.preferences.groupmeIntegration = FALSE
       /\ onboardingData'.preferences.groupmeGroupId = ""]_vars

\* the form was submitted untouched
C18_Witness ==
  /\ currentStep = VERIFY
  /\ onboardingData.preferences # null
  /\ onboardingData.preferences.recapDay = "tuesday"
  /\ onboardingData.preferences.recapTime = "09:00"
  /\ onboardingData.preferences.emailNotifications
  /\ ~onboardingData.preferences.injuryAlerts
  /\ ~onboardingData.preferences.groupmeIntegration

\* C19: every boolean preference field (emailNotifications, weeklyRecap,
\* powerRankings, waiverReport, injuryAlerts, tradeAlerts, groupmeIntegration)
\* is independently toggleable: with the untouched form on screen there is,
\* for each field, a user action that flips that field and leaves every
\* other field unchanged.  The form renders no control for injuryAlerts, so
\* this fails for that field.
C19_EveryBooleanToggleable ==
  (OnWizard /\ PreferencesSelectionMounted(currentStep) /\ prefEdits = 0) =>
    \A f \in {"emailNotifications", "weeklyRecap", "powerRankings",
              "waiverReport", "injuryAlerts", "tradeAlerts",
              "groupmeIntegration"} :
      ENABLED (Next /\ ps' = [ps EXCEPT ![f] = ~ps[f]])

\* C20: turning emailNotifications off changes none of the stored values of
\* weeklyRecap, powerRankings, waiverReport, tradeAlerts, injuryAlerts,
\* recapDay and recapTime, no step taken while it is off changes them, and a
\* submission made while it is off emits them as stored.
C20_EmailOffRetainsDependents ==
  [][\A f \in {"weeklyRecap", "powerRankings", "waiverReport", "tradeAlerts",
               "injuryAlerts", "recapDay", "recapTime"} :
       /\ (ps.emailNotifications /\ ~ps'.emailNotifications) => ps'[f] = ps[f]
       /\ (~ps.emailNotifications /\ ~handleSubmit) => ps'[f] = ps[f]
       /\ (~ps.emailNotifications /\ handleSubmit) =>
            /\ onboardingData'.preferences[f] = ps[f]
            /\ onboardingData'.preferences.emailNotifications = FALSE]_vars

\* the recap day was changed, email notifications were switched off, and the
\* form was submitted
C20_Witness ==
  /\ currentStep = VERIFY
  /\ onboardingData.preferences # null
  /\ ~onboardingData.preferences.emailNotifications
  /\ onboardingData.preferences.recapDay # "tuesday"
  /\ onboardingData.preferences.weeklyRecap
  /\ onboardingData.preferences.powerRankings

\* C21: each advance merges its payload under its own key only: the league
\* transition leaves preferences and team as they were, the preferences
\* transition leaves league and team, the team transition leaves league and
\* preferences; no other step writes the session, and once league is
\* populated its value never changes again.
C21_MergeByKeyOnly ==
  [][/\ (ConnectTimerFires \/ currentStep' = PREFERENCES) =>
          /\ onboardingData'.preferences = onboardingData.preferences
          /\ onboardingData'.team = onboardingData.team
     /\ (handleSubmit \/ (currentStep = PREFERENCES /\ currentStep' = VERIFY)) =>
          /\ onboardingData'.league = onboardingData.league
          /\ onboardingData'.team = onboardingData.team
     /\ (VerifyTimerFires \/ (currentStep = VERIFY /\ currentStep' = COMPLETE)) =>
          /\ onboardingData'.league = onboardingData.league
          /\ onboardingData'.preferences = onboardingData.preferences
     /\ onboardingData.league # null =>
          onboardingData'.league = onboardingData.league]_vars

\* a Sleeper session that went through all three merges
C21_Witness ==
  /\ currentStep = COMPLETE
  /\ onboardingData.league # null
  /\ onboardingData.league.platform = "sleeper"
  /\ onboardingData.preferences # null
  /\ onboardingData.team # null

C23_OnlyEmissionsWriteSession ==
  [][/\ ( \/ \E tab \in Tabs : setActiveTab(tab)
          \/ \E v \in TypedLeagueIds : setSleeperLeagueId(v)
          \/ \E v \in TypedUsernames : setSleeperUsername(v)
          \/ \E field \in Checkboxes : togglePreference(field)
          \/ \E day \in RecapDays : setRecapDay(day)
          \/ \E time \in TypedRecapTimes : setRecapTime(time)
          \/ \E id \in TypedGroupIds : setGroupmeGroupId(id)
          \/ \E id \in mockTeams : setSelectedTeam(id)
          \/ handleYahooConnect
          \/ handleSleeperConnect
          \/ handleVerify ) =>
          UNCHANGED <<currentStep, onboardingData>>
     /\ (currentStep' # currentStep \/ onboardingData' # onboardingData) =>
          \/ ConnectTimerFires /\ emissions' = emissions + 1
          \/ handleSubmit
          \/ VerifyTimerFires]_vars

\* a rejected Sleeper submission at CONNECT with the session untouched
C23_Witness ==
  /\ OnWizard
  /\ currentStep = CONNECT
  /\ lc.message = "League ID is required"
  /\ onboardingData = OnboardingDataInit
  /\ connectTimers = <<>>

\* C24: the wizard starts at CONNECT with league, preferences and team all
\* absent, and COMPLETE is terminal: once currentStep = COMPLETE no step,
\* the two navigation actions included, changes currentStep or any field of
\* the session.
C24_StartsAtConnectEndsAtComplete ==
  /\ currentStep = CONNECT
  /\ onboardingData.league = null
  /\ onboardingData.preferences = null
  /\ onboardingData.team = null
  /\ [][currentStep = COMPLETE =>
          /\ currentStep' = COMPLETE
          /\ onboardingData'.league = onboardingData.league
          /\ onboardingData'.preferences = onboardingData.preferences
          /\ onboardingData'.team = onboardingData.team]_vars

\* the demo button was followed from the completed wizard
C24_Witness ==
  /\ currentStep = COMPLETE
  /\ route = "/demo"
  /\ onboardingData.team # null

\* C25: the team emitted by the VERIFY step is the candidate selected when
\* confirm was invoked: the candidate list stays usable while the verify is
\* in flight, a change of selection leaves the pending verify as it is, and
\* on completion session.team.teamId is the selection of confirm time even
\* where the selection has moved since.
C25_TeamIsSelectionAtConfirm ==
  /\ []((OnWizard /\ TeamVerificationMounted(currentStep, onboardingData)
           /\ tv.loading) =>
          \A id \in mockTeams \ {tv.selectedTeam} : ENABLED setSelectedTeam(id))
  /\ [][/\ handleVerify =>
             verifyTimers' = Append(verifyTimers, [teamId |-> tv.selectedTeam])
        /\ (\E id \in mockTeams : setSelectedTeam(id)) =>
             verifyTimers' = verifyTimers
        /\ (verifyTimers # <<>> /\ verifyTimers' # <<>>) =>
             verifyTimers'[1] = verifyTimers[1]
        /\ (VerifyTimerFires /\ OnWizard) =>
             onboardingData'.team = [teamId |-> verifyTimers[1].teamId]]_vars

\* a verify in flight for one candidate while another one is selected
C25_Witness ==
  /\ OnWizard
  /\ currentStep = VERIFY
  /\ tv.loading
  /\ verifyTimers # <<>>
  /\ verifyTimers[1].teamId = "3"
  /\ tv.selectedTeam = "5"

\* C26: the league emitted by a Sleeper connect carries the league id and
\* username as they were when the form was submitted: the inputs stay
\* editable while the connect is in flight, an edit leaves the pending
\* connect as it is, the completion records the pending payload, and so
\* session.league.leagueId is always a non-empty string.
C26_SleeperPayloadIsSubmittedForm ==
  /\ []((OnWizard /\ LeagueConnectionMounted(currentStep) /\ lc.loading
           /\ lc.activeTab = "sleeper") =>
          /\ \A v \in TypedLeagueIds \ {lc.sleeperData.league_id} :
               ENABLED setSleeperLeagueId(v)
          /\ \A v \in TypedUsernames \ {lc.sleeperData.username} :
               ENABLED setSleeperUsername(v))
  /\ [](/\ \A i \in DOMAIN connectTimers : connectTimers[i].leagueId # ""
        /\ onboardingData.league # null => onboardingData.league.leagueId # "")
  /\ [][/\ (handleSleeperConnect /\ connectTimers' # connectTimers) =>
             connectTimers' =
               Append(connectTimers,
                      [platform |-> "sleeper",
                       leagueId |-> lc.sleeperData.league_id,
                       username |-> lc.sleeperData.username])
        /\ ( \/ \E v \in TypedLeagueIds : setSleeperLeagueId(v)
             \/ \E v \in TypedUsernames : setSleeperUsername(v) ) =>
             connectTimers' = connectTimers
        /\ (ConnectTimerFires /\ OnWizard) =>
             onboardingData'.league = connectTimers[1]]_vars

\* a Sleeper connect in flight whose form has since been emptied
C26_Witness ==
  /\ OnWizard
  /\ lc.loading
  /\ connectTimers # <<>>
  /\ connectTimers[1].platform = "sleeper"
  /\ connectTimers[1].leagueId # ""
  /\ lc.sleeperData.league_id = ""

\* C27: the platform recorded in session.league is the platform of the
\* connect action that was invoked, whichever tab is active when it
\* completes: the tabs stay usable while a connect is in flight, a tab
\* switch (to ESPN included) leaves the pending connect as it is, and the
\* completion records the platform of the pending connect.
C27_PlatformIsInvokedConnect ==
  /\ []((OnWizard /\ LeagueConnectionMounted(currentStep) /\ lc.loading) =>
          \A tab \in Tabs \ {lc.activeTab} : ENABLED setActiveTab(tab))
  /\ [][/\ handleYahooConnect =>
             connectTimers'[Len(connectTimers')].platform = "yahoo"
        /\ (handleSleeperConnect /\ connectTimers' # connectTimers) =>
             connectTimers'[Len(connectTimers')].platform = "sleeper"
        /\ (\E tab \in Tabs : setActiveTab(tab)) =>
             connectTimers' = connectTimers
        /\ (ConnectTimerFires /\ OnWizard) =>
             /\ onboardingData'.league.platform = connectTimers[1].platform
             /\ currentStep' = PREFERENCES]_vars

\* a Yahoo connect in flight while the ESPN tab is shown
C27_Witness ==
  /\ OnWizard
  /\ lc.loading
  /\ connectTimers # <<>>
  /\ connectTimers[1].platform = "yahoo"
  /\ lc.activeTab = "espn"

\* C28: in every reachable state of the wizard currentStep >= PREFERENCES
\* implies league is populated and currentStep >= VERIFY implies preferences
\* is populated; hence at VERIFY the league is there and the wizard renders
\* the VERIFY panel: it never renders no panel at all.
C28_StepImpliesPopulated ==
  /\ currentStep >= PREFERENCES => onboardingData.league # null
  /\ currentStep >= VERIFY => onboardingData.preferences # null
  /\ currentStep = VERIFY => RenderedPanels = {"TeamVerification"}
  /\ RenderedPanels # {}

C28_Witness ==
  /\ OnWizard
  /\ currentStep = VERIFY
  /\ onboardingData.league # null
  /\ onboardingData.preferences # null
  /\ onboardingData.team = null
  /\ RenderedPanels = {"TeamVerification"}

\* C29: in every reachable COMPLETE state of the wizard league.leagueId is
\* present and non-empty, so the "Go to League Settings" action always
\* targets /settings/{leagueId}; the generic dashboard is never the target
\* of a session that went through the wizard.
C29_WizardNeverRoutesToDashboard ==
  /\ [](currentStep = COMPLETE =>
          /\ onboardingData.league # null
          /\ "leagueId" \in DOMAIN onboardingData.league
          /\ onboardingData.league.leagueId # "")
  /\ [](route # "/dashboard")
  /\ [][handleGoToSettings =>
          route' = "/settings/" \o onboardingData.league.leagueId]_vars

\* the settings of the Yahoo league were opened from the completed wizard
C29_Witness ==
  /\ currentStep = COMPLETE
  /\ route = "/settings/yahoo-league-123"

\* C30: the wizard cannot get stuck before COMPLETE.  While it is on screen
\* with currentStep < COMPLETE, either a completion is pending or the user
\* has a move toward the next step: at CONNECT the connect of the tab shown
\* or, with nothing in flight, the switch to the Yahoo tab; at PREFERENCES
\* the submit; at VERIFY the confirm or, with nothing selected and nothing in
\* flight, the choice of a candidate.  And since a timer that is set
\* expires, a started connect leads past CONNECT and a confirmed team leads
\* to COMPLETE, as long as the wizard stays on screen.
C30_NeverStuckBeforeComplete ==
  /\ []((OnWizard /\ currentStep = CONNECT) =>
          \/ connectTimers # <<>>
          \/ ENABLED handleYahooConnect
          \/ lc.sleeperData.league_id # "" /\ ENABLED handleSleeperConnect
          \/ ~lc.loading /\ ENABLED setActiveTab("yahoo"))
  /\ []((OnWizard /\ currentStep = PREFERENCES) => ENABLED handleSubmit)
  /\ []((OnWizard /\ currentStep = VERIFY) =>
          \/ verifyTimers # <<>>
          \/ ENABLED handleVerify
          \/ /\ ~tv.loading /\ tv.selectedTeam = ""
             /\ \E id \in mockTeams : ENABLED setSelectedTeam(id))
  /\ ((OnWizard /\ currentStep = CONNECT /\ connectTimers # <<>>)
        ~> (~OnWizard \/ currentStep >= PREFERENCES))
  /\ ((OnWizard /\ currentStep = VERIFY /\ tv.loading)
        ~> (~OnWizard \/ currentStep = COMPLETE))

\* a wizard that went all the way with nothing left pending
C30_Witness ==
  /\ OnWizard
  /\ currentStep = COMPLETE
  /\ connectTimers = <<>>
  /\ verifyTimers = <<>>
  /\ emissions = 1

====
